---- MODULE Spec2Model ----
(***************************************************************************)
(* Model of the two scripts of the repository:                             *)
(*   - optimize_scoring_function_partial: the composite ranking pass, the  *)
(*     eval_metric function and the hill-climbing loop over the weights;   *)
(*   - dataset-csv.py: the dataset scrape loop.                            *)
(*                                                                         *)
(* Weights and the step size are kept in units of 0.05, so 0.1/0.6/0.3 are *)
(* 2/12/6 and 0.1/0.9/0.0 are 2/18/0; embeddings are integer vectors, so a *)
(* composite score is the exact weighted sum scaled by 20.  A metric       *)
(* correct / total is kept as the pair <<correct, total>>.                 *)
(***************************************************************************)
EXTENDS Integers, Sequences, FiniteSets, TLC

\* ---------------------------------------------------------------- bounds
NumRecords == 11
Dim == 2
MaxListing == 3

\* ------------------------------------------------------ program constants
TopK == 10
step_size == 1
max_iters == 100
UNAVAILABLE == "[UNAVAILABLE]"

VARIABLES
    keys,              \* insertion order of the embedding caches (= order of data)
    data_dict,         \* id -> feature_summary of the record
    query_emb,         \* [title, details, feature] -> id -> vector
    doc_emb,           \* [title, details, feature] -> id -> vector
    pc,                \* position of the script
    rq,                \* index in keys of the next query of the ranking pass
    scores,            \* the scores dict of the query ranked last
    ranking,           \* qid -> ranked document ids
    current_weights, current_metric, iteration, improved,
    i, delta_idx,      \* position in the two nested for loops
    candidate, candidate_metric,
    accepted,          \* number of candidates accepted in the current pass
    listing,           \* datasets_list.items(): sequence of <<dataset_id, dataset_info>>
    fetches,           \* the registry's answer for each listed id
    pos,               \* index in listing of the next dataset
    dataset_info_list, \* entries appended so far
    written            \* content of dataset_descriptions.json (<<>> until dumped)

rankvars == <<keys, data_dict, query_emb, doc_emb, pc, rq, scores, ranking,
              current_weights, current_metric, iteration, improved,
              i, delta_idx, candidate, candidate_metric, accepted>>
scrapevars == <<listing, fetches, pos, dataset_info_list, written>>
vars == <<rankvars, scrapevars>>

Ids == 1..NumRecords

\* ------------------------------------------------------------ pure helpers
RECURSIVE DotUpTo(_, _, _)
DotUpTo(a, b, n) == IF n = 0 THEN 0 ELSE DotUpTo(a, b, n - 1) + a[n] * b[n]

\* torch.dot(a, b).item()
dot_product(a, b) == DotUpTo(a, b, Len(a))

\* composite = w_title * sim_title + w_details * sim_details + w_feature * sim_feature
composite(w, qe, de, q, d) ==
    w[1] * dot_product(qe.title[q], de.title[d])
  + w[2] * dot_product(qe.details[q], de.details[d])
  + w[3] * dot_product(qe.feature[q], de.feature[d])

\* variant: the weight triple chosen from the query's record
RankWeightsByQuery(dd, q, d) ==
    IF dd[q] = UNAVAILABLE THEN <<2, 18, 0>> ELSE <<2, 12, 6>>

\* the weight triple of the ranking pass, chosen from the document's record
RankWeights(dd, q, d) ==
    IF dd[d] = UNAVAILABLE THEN <<2, 18, 0>> ELSE <<2, 12, 6>>

\* F(e), with e evaluated once and its value handed to F
Bind(e, F(_)) == CHOOSE r \in {F(x) : x \in {e}} : TRUE

\* A Python dict is kept as the sequence of its <<key, value>> items in
\* insertion order.
RECURSIVE RankScoresUpTo(_, _, _, _, _, _)
RankScoresUpTo(ks, n, dd, qe, de, q) ==
    IF n = 0 THEN <<>>
    ELSE Append(RankScoresUpTo(ks, n - 1, dd, qe, de, q),
                <<ks[n], composite(RankWeights(dd, q, ks[n]), qe, de, q, ks[n])>>)

\* the scores dict built by the inner loop of the ranking pass for query q
RankScores(ks, dd, qe, de, q) == RankScoresUpTo(ks, Len(ks), dd, qe, de, q)

\* variant: an item takes the place of an item of equal score
InsertDescReplacingTies(s, item) ==
    LET n == Cardinality({m \in 1..Len(s) : s[m][2] >= item[2]})
    IN  IF n > 0 /\ s[n][2] = item[2]
        THEN [s EXCEPT ![n] = item]
        ELSE SubSeq(s, 1, n) \o <<item>> \o SubSeq(s, n + 1, Len(s))

\* variant: an item goes before the items of equal score (not stable)
InsertDescBeforeTies(s, item) ==
    LET n == Cardinality({m \in 1..Len(s) : s[m][2] > item[2]})
    IN  SubSeq(s, 1, n) \o <<item>> \o SubSeq(s, n + 1, Len(s))

\* insertion of an item into a sequence of items already sorted by descending
\* score: it goes after every item whose score is >= its own (stable).
InsertDesc(s, item) ==
    LET n == Cardinality({m \in 1..Len(s) : s[m][2] >= item[2]})
    IN  SubSeq(s, 1, n) \o <<item>> \o SubSeq(s, n + 1, Len(s))

RECURSIVE SortedItems(_, _)
SortedItems(items, n) ==
    IF n = 0 THEN <<>>
    ELSE Bind(SortedItems(items, n - 1), LAMBDA s : InsertDesc(s, items[n]))

RECURSIVE KeysUpTo(_, _)
KeysUpTo(items, n) ==
    IF n = 0 THEN <<>> ELSE Append(KeysUpTo(items, n - 1), items[n][1])

\* sorted(scores, key=scores.get, reverse=True): the keys of the dict, taken
\* in insertion order and stably sorted by descending score
sorted(sc) == Bind(SortedItems(sc, Len(sc)), LAMBDA s : KeysUpTo(s, Len(s)))

\* variant: ranked[:9]
TopShort(ranked) ==
    SubSeq(ranked, 1, IF Len(ranked) < TopK - 1 THEN Len(ranked) ELSE TopK - 1)

\* ranked[:10]
Top(ranked) == SubSeq(ranked, 1, IF Len(ranked) < TopK THEN Len(ranked) ELSE TopK)

InSeq(x, s) == \E n \in 1..Len(s) : s[n] = x

RECURSIVE EvalScoresUpTo(_, _, _, _, _, _)
EvalScoresUpTo(ks, n, qe, de, w, rid) ==
    IF n = 0 THEN <<>>
    ELSE Append(EvalScoresUpTo(ks, n - 1, qe, de, w, rid),
                <<ks[n], composite(w, qe, de, rid, ks[n])>>)

\* the scores dict built by the inner loop of eval_metric for query rid
EvalScores(ks, qe, de, w, rid) == EvalScoresUpTo(ks, Len(ks), qe, de, w, rid)

\* if rid in ranked[:10], for the ranking of query rid under the weights w
Hit(ks, qe, de, w, rid) ==
    Bind(EvalScores(ks, qe, de, w, rid),
         LAMBDA sc : Bind(sorted(sc), LAMBDA ranked : InSeq(rid, Top(ranked))))

\* eval_metric(weights): <<correct, total>>
eval_metric(ks, qe, de, w) ==
    <<Cardinality({n \in 1..Len(ks) : Hit(ks, qe, de, w, ks[n])}), Len(ks)>>

\* candidate_metric > current_metric on the quotients correct / total
MetricGT(a, b) == a[1] * b[2] > b[1] * a[2]

\* ------------------------------------------------------------ input data
\* a vector of Dim components: <<a, b, 0, ...>>
Vec(a, b) == [n \in 1..Dim |-> IF n = 1 THEN a ELSE IF n = 2 THEN b ELSE 0]

\* Per-field scalings of the query embeddings of a record.  With the document
\* vector <<d, d*d>> and the query vector k * <<-2r, 1>> the similarity of
\* query r and document d is k * ((d - r)^2 - r^2), smallest (k > 0) or
\* largest (k < 0) at the query's own document.
Profiles == {<<5, 0, -1>>, <<1, 0, 0>>, <<6, 0, 1>>, <<1, -1, 2>>, <<6, -1, 0>>}
BaseProfiles == {<<-1, -1, -1>>, <<6, 0, 1>>}

\* the first two records choose their profiles, the others share one
DataProfiles == {[r \in Ids |-> IF r = 1 THEN a ELSE IF r = 2 THEN b ELSE base] :
                    a \in Profiles, b \in Profiles, base \in BaseProfiles}

\* the three query embeddings of every record, one per adapter
QueryEmb(prof) ==
    [title   |-> [r \in Ids |-> Vec(-2 * r * prof[r][1], prof[r][1])],
     details |-> [r \in Ids |-> Vec(-2 * r * prof[r][2], prof[r][2])],
     feature |-> [r \in Ids |-> Vec(-2 * r * prof[r][3], prof[r][3])]]

\* the three document embeddings of every record

DocEmb ==
    [title   |-> [r \in Ids |-> Vec(r, r * r)],
     details |-> [r \in Ids |-> Vec(r, r * r)],
     feature |-> [r \in Ids |-> Vec(r, r * r)]]

Identity == [n \in 1..NumRecords |-> n]
Reversed == [n \in 1..NumRecords |-> NumRecords + 1 - n]

RankInit ==
    /\ keys \in {Identity, Reversed}
    /\ data_dict = [r \in Ids |-> IF r \in {1, NumRecords} THEN UNAVAILABLE
                                    ELSE "summary"]
    /\ \E prof \in DataProfiles : query_emb = QueryEmb(prof)
    /\ doc_emb = DocEmb
    /\ pc = "rank"
    /\ rq = 1
    /\ scores = <<>>
    /\ ranking = <<>>
    /\ current_weights = <<>>
    /\ current_metric = <<>>
    /\ iteration = 0
    /\ improved = FALSE
    /\ i = 0
    /\ delta_idx = 0
    /\ candidate = <<>>
    /\ candidate_metric = <<>>
    /\ accepted = 0

ScrapeIdle ==
    /\ listing = <<>>
    /\ fetches = <<>>
    /\ pos = 1
    /\ dataset_info_list = <<>>
    /\ written = <<>>

Init == RankInit /\ ScrapeIdle

\* ------------------------------------------------------------ ranking pass
hillvars == <<current_weights, current_metric, iteration, improved,
              i, delta_idx, candidate, candidate_metric, accepted>>
datavars == <<keys, data_dict, query_emb, doc_emb>>

\* one iteration of the loop over the query ids
RankQuery ==
    /\ pc = "rank"
    /\ rq <= Len(keys)
    /\ scores' = RankScores(keys, data_dict, query_emb, doc_emb, keys[rq])
    /\ \E ranked_doc_ids \in {sorted(scores')} :
         ranking' = [q \in (DOMAIN ranking) \cup {keys[rq]} |->
                        IF q = keys[rq] THEN ranked_doc_ids ELSE ranking[q]]
    /\ rq' = rq + 1
    /\ pc' = IF rq = Len(keys) THEN "hill" ELSE "rank"
    /\ UNCHANGED <<datavars, hillvars, scrapevars>>

\* ------------------------------------------------------------ hill climbing
\* current_weights = [0.1, 0.6, 0.3]; current_metric = eval_metric(...); ...
HillInit ==
    /\ pc = "hill"
    /\ current_weights' = <<2, 12, 6>>
    /\ current_metric' = eval_metric(keys, query_emb, doc_emb, <<2, 12, 6>>)
    /\ iteration' = 0
    /\ improved' = TRUE
    /\ pc' = "while"
    /\ UNCHANGED <<datavars, rq, scores, ranking, i, delta_idx,
                   candidate, candidate_metric, accepted, scrapevars>>

\* while improved and iteration < max_iters: improved = False; iteration += 1
\* variant: without the assignment the flag keeps the value TRUE that let
\* the loop in
ImprovedAtPassStartStale == TRUE

\* improved = False at the head of the loop body
ImprovedAtPassStart == FALSE

WhileTest ==
    /\ pc = "while"
    /\ IF improved /\ iteration < max_iters
       THEN /\ improved' = ImprovedAtPassStart
            /\ iteration' = iteration + 1
            /\ i' = 0
            /\ delta_idx' = 0
            /\ accepted' = 0
            /\ pc' = "for"
       ELSE /\ pc' = "done"
            /\ UNCHANGED <<improved, iteration, i, delta_idx, accepted>>
    /\ UNCHANGED <<datavars, rq, scores, ranking, current_weights,
                   current_metric, candidate, candidate_metric, scrapevars>>

\* variant: [-step_size, step_size][delta_idx]
DeltaMinusFirst(n) == IF n = 0 THEN 0 - step_size ELSE step_size

\* [step_size, -step_size][delta_idx]
Delta(n) == IF n = 0 THEN step_size ELSE 0 - step_size

\* variant: candidate[0] += delta
PerturbedFirstOnly(w, c, n) == [w EXCEPT ![1] = w[1] + Delta(n)]

\* candidate = current_weights.copy(); candidate[i] += delta
Perturbed(w, c, n) == [w EXCEPT ![c + 1] = w[c + 1] + Delta(n)]

\* advance the two nested for loops; after the 6th candidate the pass is over
Advance ==
    /\ delta_idx' = IF delta_idx = 0 THEN 1 ELSE 0
    /\ i' = IF delta_idx = 0 THEN i ELSE i + 1
    /\ pc' = IF delta_idx = 1 /\ i = 2 THEN "pass_end" ELSE "for"

\* variant: no test of the perturbed coordinate
IsNegativeNever(cand, c) == FALSE

\* if candidate[i] < 0: continue
IsNegative(cand, c) == cand[c + 1] < 0

CandidateSkip ==
    /\ pc = "for"
    /\ candidate' = Perturbed(current_weights, i, delta_idx)
    /\ IsNegative(candidate', i)
    /\ Advance
    /\ UNCHANGED <<datavars, rq, scores, ranking, current_weights, current_metric,
                   iteration, improved, candidate_metric, accepted, scrapevars>>

\* candidate_metric = eval_metric(candidate)
CandidateEvaluate ==
    /\ pc = "for"
    /\ candidate' = Perturbed(current_weights, i, delta_idx)
    /\ ~IsNegative(candidate', i)
    /\ candidate_metric' = eval_metric(keys, query_emb, doc_emb, candidate')
    /\ pc' = "if"
    /\ UNCHANGED <<datavars, rq, scores, ranking, current_weights, current_metric,
                   iteration, improved, i, delta_idx, accepted, scrapevars>>

\* variant: every evaluated candidate is taken
AcceptsAlways(cm, m) == TRUE

\* if candidate_metric > current_metric
Accepts(cm, m) == MetricGT(cm, m)

CandidateAccept ==
    /\ pc = "if"
    /\ Accepts(candidate_metric, current_metric)
    /\ current_metric' = candidate_metric
    /\ current_weights' = candidate
    /\ improved' = TRUE
    /\ accepted' = accepted + 1
    /\ Advance
    /\ UNCHANGED <<datavars, rq, scores, ranking, iteration, candidate,
                   candidate_metric, scrapevars>>

CandidateReject ==
    /\ pc = "if"
    /\ ~Accepts(candidate_metric, current_metric)
    /\ Advance
    /\ UNCHANGED <<datavars, rq, scores, ranking, current_weights, current_metric,
                   iteration, improved, candidate, candidate_metric, accepted,
                   scrapevars>>

\* if not improved: break
PassEnd ==
    /\ pc = "pass_end"
    /\ pc' = IF improved THEN "while" ELSE "done"
    /\ UNCHANGED <<datavars, rq, scores, ranking, hillvars, scrapevars>>

Next ==
    \/ RankQuery
    \/ HillInit
    \/ WhileTest
    \/ CandidateSkip
    \/ CandidateEvaluate
    \/ CandidateAccept
    \/ CandidateReject
    \/ PassEnd

\* ------------------------------------------------------------ dataset scraper
\* Python values met by the scraper: a str, None, or a number
PyStr(v) == [type |-> "str", val |-> v]
PyNone == [type |-> "NoneType", val |-> ""]
PyInt(v) == [type |-> "int", val |-> v]
FieldVals == {PyStr("iris"), PyStr(""), PyNone, PyInt("7")}

\* bool(v)
Truthy(v) ==
    IF v.type = "str" THEN v.val # ""
    ELSE IF v.type = "int" THEN v.val # "0"
    ELSE FALSE

\* isinstance(v, str)
IsStr(v) == v.type = "str"

\* the registry's listing: ids in listing order, each with its 'name'
\* (dataset_info.get('name') is None when the key is missing)
ListedIds == <<3, 1, 2, 5, 4>>
Listings == UNION {[1..n -> FieldVals] : n \in 0..MaxListing}

\* the answer of openml.datasets.get_dataset for one id
Fetches == {[ok |-> FALSE, description |-> PyNone]}
             \cup {[ok |-> TRUE, description |-> d] : d \in FieldVals}

RankIdle ==
    /\ keys = Identity
    /\ data_dict = [r \in Ids |-> "summary"]
    /\ query_emb = QueryEmb([r \in Ids |-> <<-1, -1, -1>>])
    /\ doc_emb = DocEmb
    /\ pc = "idle"
    /\ rq = 1
    /\ scores = <<>>
    /\ ranking = <<>>
    /\ current_weights = <<>>
    /\ current_metric = <<>>
    /\ iteration = 0
    /\ improved = FALSE
    /\ i = 0
    /\ delta_idx = 0
    /\ candidate = <<>>
    /\ candidate_metric = <<>>
    /\ accepted = 0

ScrapeInit ==
    /\ RankIdle
    /\ \E names \in Listings :
         listing = [n \in 1..Len(names) |-> <<ListedIds[n], names[n]>>]
    /\ fetches = <<>>
    /\ pos = 1
    /\ dataset_info_list = <<>>
    /\ written = <<>>

\* variant: truthiness alone, without the isinstance tests
ValidTruthyOnly(dataset_id, name, description) ==
    /\ dataset_id # 0
    /\ Truthy(name)
    /\ Truthy(description)

\* the condition of the if statement that validates id, title and description
Valid(dataset_id, name, description) ==
    /\ dataset_id # 0
    /\ Truthy(name)
    /\ Truthy(description)
    /\ IsStr(description)
    /\ IsStr(name)

\* get_dataset raises: the except branch logs and the loop goes on
FetchFails ==
    /\ pos <= Len(listing)
    /\ fetches' = Append(fetches, [ok |-> FALSE, description |-> PyNone])
    /\ pos' = pos + 1
    /\ UNCHANGED <<listing, dataset_info_list, written, rankvars>>

\* the fetch succeeds and the entry is valid: it is appended
ProcessDataset ==
    /\ pos <= Len(listing)
    /\ \E d \in FieldVals :
         /\ Valid(listing[pos][1], listing[pos][2], d)
         /\ fetches' = Append(fetches, [ok |-> TRUE, description |-> d])
         /\ dataset_info_list' = Append(dataset_info_list,
                [id |-> ToString(listing[pos][1]),
                 title |-> listing[pos][2].val,
                 description |-> d.val])
    /\ pos' = pos + 1
    /\ UNCHANGED <<listing, written, rankvars>>

\* the fetch succeeds and the entry is missing or invalid: it is skipped
SkipDataset ==
    /\ pos <= Len(listing)
    /\ \E d \in FieldVals :
         /\ ~Valid(listing[pos][1], listing[pos][2], d)
         /\ fetches' = Append(fetches, [ok |-> TRUE, description |-> d])
    /\ pos' = pos + 1
    /\ UNCHANGED <<listing, dataset_info_list, written, rankvars>>

\* json.dump(dataset_info_list, jsonfile) after the loop
Dump ==
    /\ pos = Len(listing) + 1
    /\ written = <<>>
    /\ written' = <<dataset_info_list>>
    /\ UNCHANGED <<listing, fetches, pos, dataset_info_list, rankvars>>

ScrapeNext ==
    \/ FetchFails
    \/ ProcessDataset
    \/ SkipDataset
    \/ Dump

ScrapeSpec == ScrapeInit /\ [][ScrapeNext]_vars

Spec == Init /\ [][Next]_vars

FairSpec == Spec /\ WF_vars(Next)

TypeOK ==
    /\ pc \in {"rank", "hill", "while", "for", "if", "pass_end", "done", "idle"}
    /\ i \in 0..3
    /\ delta_idx \in 0..1
    /\ pos \in 1..(Len(listing) + 1)

\* ------------------------------------------------------------ properties
DocIds == {keys[n] : n \in 1..Len(keys)}

\* position of an id in the insertion order of the caches
KeyIndex(d) == CHOOSE n \in 1..Len(keys) : keys[n] = d

\* C1: for every query id ranked so far, ranking[qid] holds every document id
\* of the cache exactly once (as many entries as documents, and every document
\* among them), and once the pass is over every query id has a ranking.
C1_RankingIsPermutation ==
    /\ \A q \in DOMAIN ranking :
         /\ Len(ranking[q]) = Cardinality(DocIds)
         /\ {ranking[q][n] : n \in 1..Len(ranking[q])} = DocIds
    /\ pc \notin {"rank", "idle"} => DOMAIN ranking = DocIds

C1_Witness ==
    /\ pc = "done"
    /\ DOMAIN ranking = Ids
    /\ \E q \in Ids : ranking[q][1] # q

\* the composite score of the ranking pass for the pair (q, d)
PairScore(q, d) ==
    composite(IF data_dict[d] = UNAVAILABLE THEN <<2, 18, 0>> ELSE <<2, 12, 6>>,
              query_emb, doc_emb, q, d)

\* C2: every stored ranking is in descending order of composite score, and
\* two documents of equal score appear in the order in which the document
\* cache enumerates them (stated on neighbouring entries, which gives it for
\* every pair: entries between two of equal score have that score too).
C2_DescendingStable ==
    \A q \in DOMAIN ranking :
      \A a \in 1..(Len(ranking[q]) - 1) :
        \A sa \in {PairScore(q, ranking[q][a])}, sb \in {PairScore(q, ranking[q][a + 1])} :
          /\ sa >= sb
          /\ sa = sb => KeyIndex(ranking[q][a]) < KeyIndex(ranking[q][a + 1])

\* a tie between two documents whose ids are in the opposite order of their
\* enumeration, next to a strict descent
C2_Witness ==
    \E q \in DOMAIN ranking :
      \E a \in 1..(Len(ranking[q]) - 2) :
        /\ PairScore(q, ranking[q][a]) = PairScore(q, ranking[q][a + 1])
        /\ ranking[q][a] > ranking[q][a + 1]
        /\ PairScore(q, ranking[q][a + 1]) > PairScore(q, ranking[q][a + 2])

SimTitle(q, d) == dot_product(query_emb.title[q], doc_emb.title[d])
SimDetails(q, d) == dot_product(query_emb.details[q], doc_emb.details[d])
SimFeature(q, d) == dot_product(query_emb.feature[q], doc_emb.feature[d])

\* C3: in the scores dict of the ranking pass the score of a document whose
\* feature_summary is "[UNAVAILABLE]" is 0.1*title + 0.9*details (no feature
\* term), the score of any other document is 0.1*title + 0.6*details +
\* 0.3*feature, whatever the feature_summary of the query's record (scores
\* scaled by 20).
C3_WeightsPerDocument ==
    \A n \in 1..Len(scores) :
      LET q == keys[rq - 1]
          d == scores[n][1]
      IN  /\ d = keys[n]
          /\ scores[n][2] =
               IF data_dict[d] = UNAVAILABLE
               THEN 2 * SimTitle(q, d) + 18 * SimDetails(q, d)
               ELSE 2 * SimTitle(q, d) + 12 * SimDetails(q, d) + 6 * SimFeature(q, d)

\* an unavailable document with a non-zero feature similarity scored for a
\* query whose own feature_summary is available, and the converse pair
C3_Witness ==
    /\ Len(scores) = NumRecords
    /\ \E n \in 1..Len(scores) :
         /\ data_dict[scores[n][1]] = UNAVAILABLE
         /\ data_dict[keys[rq - 1]] # UNAVAILABLE
         /\ SimFeature(keys[rq - 1], scores[n][1]) # 0
    /\ \E q \in DOMAIN ranking, d \in Ids :
         /\ data_dict[q] = UNAVAILABLE
         /\ data_dict[d] # UNAVAILABLE
         /\ SimFeature(q, d) # 0

\* number of documents that precede the query's own document in the descending
\* order of the scores computed with the one weight triple w
Preceding(q, w) ==
    Cardinality({c \in DocIds :
        \/ composite(w, query_emb, doc_emb, q, c) > composite(w, query_emb, doc_emb, q, q)
        \/ /\ composite(w, query_emb, doc_emb, q, c) = composite(w, query_emb, doc_emb, q, q)
           /\ KeyIndex(c) < KeyIndex(q)})

HitFraction(w) == <<Cardinality({q \in DocIds : Preceding(q, w) < 10}), Cardinality(DocIds)>>

NonNegative(w) == \A c \in 1..3 : w[c] >= 0

\* C4: every value returned by eval_metric (for the current weights and for
\* an evaluated candidate) is the number of queries whose own id is among the
\* first 10 documents of the descending order under that one weight triple,
\* over the number of queries, hence within [0, 1].
C4_EvalMetric ==
    /\ current_metric # <<>> =>
         /\ current_metric = HitFraction(current_weights)
         /\ 0 <= current_metric[1] /\ current_metric[1] <= current_metric[2]
    /\ (candidate_metric # <<>> /\ NonNegative(candidate)) =>
         /\ candidate_metric = HitFraction(candidate)
         /\ 0 <= candidate_metric[1] /\ candidate_metric[1] <= candidate_metric[2]

\* a candidate evaluated to a fraction strictly between 0 and 1 that differs
\* from the current one
C4_Witness ==
    /\ candidate_metric # <<>>
    /\ NonNegative(candidate)
    /\ 0 < candidate_metric[1]
    /\ candidate_metric[1] < candidate_metric[2]
    /\ candidate_metric # current_metric

\* C4, second half: 1.0 is returned when every query is a hit
C4_AllHits ==
    /\ current_metric # <<>>
    /\ current_metric[1] = current_metric[2]
    /\ \A q \in DocIds : Preceding(q, current_weights) < 10

\* C5: no step of the optimizer lowers current_metric, and the final metric
\* is at least the metric of the initial weights (0.1, 0.6, 0.3).
C5_MetricNeverDecreases ==
    /\ [][current_metric # <<>> => ~MetricGT(current_metric, current_metric')]_vars
    /\ [](pc = "done" => ~MetricGT(HitFraction(<<2, 12, 6>>), current_metric))

C5_Witness ==
    /\ pc = "done"
    /\ MetricGT(current_metric, HitFraction(<<2, 12, 6>>))
    /\ iteration >= 3

C8_AtMostOneAcceptPerPass == accepted <= 1

\* the n-th candidate of a pass (n = 0..5): coordinates 0, 1, 2 in turn, +step
\* before -step
NthCandidate(w, n) ==
    [w EXCEPT ![(n \div 2) + 1] = w[(n \div 2) + 1] + (IF n % 2 = 0 THEN 1 ELSE -1)]

\* C8 amended: the candidates of a pass are taken in the order coordinate
\* 0, 1, 2 and +step before -step, each from the weights current at that
\* moment; every evaluated candidate that strictly improves on the current
\* metric is accepted at once, and no other candidate is.
C8_GreedyInOrder ==
    [][/\ pc \in {"for", "if"} => 2 * i + delta_idx \in 0..5
       /\ pc = "for" => candidate' = NthCandidate(current_weights, 2 * i + delta_idx)
       /\ pc' = "for" =>
             2 * i' + delta_idx' = IF pc \in {"for", "if"} THEN 2 * i + delta_idx + 1 ELSE 0
       /\ pc' = "pass_end" => 2 * i + delta_idx = 5
       /\ IF pc = "if" /\ MetricGT(candidate_metric, current_metric)
          THEN current_weights' = candidate /\ current_metric' = candidate_metric
          ELSE pc # "hill" => UNCHANGED <<current_weights, current_metric>>]_vars

\* two candidates accepted in the same pass
C8_Witness == accepted >= 2

\* C9: all components of current_weights are >= 0 in every state, and a
\* candidate with a negative component changes neither the current weights
\* and metric nor the metric of the last evaluated candidate.
C9_WeightsNonNegative ==
    /\ [](current_weights # <<>> => NonNegative(current_weights))
    /\ [][(pc = "for" /\ ~NonNegative(candidate')) =>
            (pc' # "if" /\ UNCHANGED <<current_weights, current_metric,
                                        candidate_metric, improved>>)]_vars

\* a candidate with a negative component has just been passed over
C9_Witness ==
    /\ candidate # <<>>
    /\ ~NonNegative(candidate)
    /\ \E c \in 1..3 : current_weights[c] = 0

Neighbours(w) ==
    {nb \in {[w EXCEPT ![c] = w[c] + d] : c \in 1..3, d \in {1, -1}} : NonNegative(nb)}

\* C10: when the loop is left after a pass without improvement, current_metric
\* is the metric of current_weights and no non-negative neighbour at distance
\* one step in one coordinate has a strictly greater metric.
C10_LocalOptimum ==
    (pc = "done" /\ ~improved) =>
      /\ current_metric = eval_metric(keys, query_emb, doc_emb, current_weights)
      /\ \A nb \in Neighbours(current_weights) :
           ~MetricGT(eval_metric(keys, query_emb, doc_emb, nb), current_metric)

\* a stop after several passes at weights that still miss some query
C10_Witness ==
    /\ pc = "done"
    /\ ~improved
    /\ iteration >= 2
    /\ iteration < 100
    /\ current_metric[1] < current_metric[2]
    /\ Cardinality(Neighbours(current_weights)) < 6

\* the entries the run is to write: one per listed id whose fetch succeeded
\* and whose title and description are non-empty strings, in listing order
NonEmptyStr(v) == v.type = "str" /\ v.val # ""

RECURSIVE ExpectedUpTo(_)
ExpectedUpTo(n) ==
    IF n = 0 THEN <<>>
    ELSE IF fetches[n].ok /\ NonEmptyStr(listing[n][2]) /\ NonEmptyStr(fetches[n].description)
         THEN Append(ExpectedUpTo(n - 1),
                     [id |-> ToString(listing[n][1]),
                      title |-> listing[n][2].val,
                      description |-> fetches[n].description.val])
         ELSE ExpectedUpTo(n - 1)

\* C7: the file is written only after every listed id has been tried, and it
\* holds, in listing order, exactly the entries of the ids whose fetch
\* succeeded with a non-empty string title and description.
C7_ScrapeOutput ==
    written # <<>> =>
      /\ Len(fetches) = Len(listing)
      /\ written[1] = ExpectedUpTo(Len(listing))

\* a failed fetch followed by an id that made it into the file
C7_Witness ==
    /\ written # <<>>
    /\ Len(written[1]) >= 1
    /\ \E a, b \in 1..Len(fetches) :
         /\ a < b
         /\ ~fetches[a].ok
         /\ fetches[b].ok
         /\ written[1][Len(written[1])].id = ToString(listing[b][1])

====
